---- MODULE Spec2Model ----
(***************************************************************************)
(* Transactional outbox relay of the event listening server.               *)
(*                                                                         *)
(* The model follows the code of:                                          *)
(*   events/hik/events.py   receive_event (the ingestion handler)          *)
(*   events/crud.py         create_event                                   *)
(*   outbox/crud.py         add_to_outbox                                  *)
(*   tasks/repository.py    _publish_event_by_id, _process_outbox_batch    *)
(*   tasks/task.py          publish_single_event, process_outbox_events    *)
(*   simple_tasks.py        publish_event_immediately,                     *)
(*                          process_failed_outbox_events                   *)
(*   producer.py            KafkaProducerService, get_producer_service     *)
(*   kafka_service.py       KafkaService, get_kafka_service                *)
(*   events/background.py   OutboxProcessor (the sweep loop in the server)  *)
(*   tasks/triggers.py      trigger_event_publish                          *)
(*                                                                         *)
(* Two processes share the store and the broker: the HTTP server (the      *)
(* handler and the detached asyncio dispatch tasks it creates) and one     *)
(* Celery worker that runs one task at a time (the sweep, and the Celery   *)
(* form of the fast path).  Time is in seconds.                            *)
(***************************************************************************)
EXTENDS Integers, Sequences, FiniteSets, TLC

\* ------------------------------------------------------------------ bounds
MaxRequests == 2        \* HTTP requests received
MaxTicks == 1           \* clock advances
TickLen == 31           \* seconds per clock advance
MaxFaults == 1          \* process crashes and failed store operations, together
MaxBrokerFlips == 1     \* changes of the broker's reachability
MaxSends == 1           \* send_message calls made on the producer instance svc
MaxCalls == 2           \* send_message calls in flight at once on the producer instance svc
MaxTriggers == 1        \* trigger_event_publish / trigger_immediate_publish calls
BatchSize == 2          \* batch_size argument of the sweep
SmallBatch == 1         \* a batch_size smaller than the number of rows
MaxPublishes == 2       \* calls of publish_event on one KafkaService instance

\* ------------------------------------------------------ program constants
GraceSeconds == 30          \* simple_tasks.py: INTERVAL '30 seconds'
max_retries == 5            \* producer.py ProducerConfig.max_retries
retry_delay == 1            \* producer.py ProducerConfig.retry_delay, seconds
SingleEventMaxRetries == 5  \* tasks/task.py publish_single_event max_retries
ImmediateMaxRetries == 3    \* simple_tasks.py publish_event_immediately max_retries

MaxClock == MaxTicks * TickLen
Requests == 1..MaxRequests
OutboxIds == 1..MaxRequests
EventIds == 1..MaxRequests
CallIds == 1..MaxCalls
NULL == -1

VARIABLES
    clock,            \* current time (datetime.utcnow / NOW())
    brokerUp,         \* whether the Kafka broker is reachable
    deploy,           \* who sweeps: the worker's Celery app, "async" (celery_config) or
                      \* "sync" (simple_tasks), or "inprocess" (the server's OutboxProcessor)
    req,              \* per request: the handler's position and its response
    events,           \* committed rows of table events
    outbox,           \* committed rows of table outbox_events
    nextEventId,      \* sequence of events.id
    nextOutboxId,     \* sequence of outbox_events.id
    fp,               \* per outbox id: the detached asyncio task _publish_event_by_id
    celery,           \* per outbox id: the Celery fast-path task and its retry count
    wk,               \* the Celery worker's current task
    producer_service, \* producer.py singleton, one per process
    kafka_service,    \* kafka_service.py singleton of the worker
    hist,             \* per outbox id: what the broker and the dispatchers have done
    env,              \* counters of the environment's faults
    processor,        \* events/background.py outbox_processor, and what the sweep loop has done
    svc,              \* a KafkaProducerService instance driven through its own interface
    ksvc              \* a KafkaService instance driven through its own interface

vars == << clock, brokerUp, deploy, req, events, outbox, nextEventId, nextOutboxId,
           fp, celery, wk, producer_service, kafka_service, hist, env, processor, svc,
           ksvc >>

Procs == {"server", "worker"}

\* ------------------------------------------------------------ data model
\* outbox/models.py OutboxEvent; exists = FALSE stands for "no such row".
NoRow ==
    [exists |-> FALSE, aggregate_id |-> 0, aggregate_type |-> "", event_type |-> "",
     payload |-> 0, created_at |-> NULL, processed |-> FALSE, processed_at |-> NULL]

OutboxEvent(aggregate_id, aggregate_type, event_type, payload, now) ==
    [exists |-> TRUE, aggregate_id |-> aggregate_id, aggregate_type |-> aggregate_type,
     event_type |-> event_type, payload |-> payload,
     created_at |-> now, processed |-> FALSE, processed_at |-> NULL]

\* events/models.py PersonPurpose, as assigned in receive_event
Purpose(kind) == IF kind = "attendance" THEN "ATTENDANCE" ELSE "INFORMATION"

IdleReq == [kind |-> "none", pc |-> "idle", status |-> 0, event_id |-> 0, outbox_id |-> 0]
NoTask == [pc |-> "none", host |-> "none"]
NoCelery == [state |-> "none", retries |-> 0, send_failed |-> FALSE]
IdleWorker ==
    [task |-> "idle", id |-> 0, pc |-> "idle", batch |-> << >>, idx |-> 0,
     marks |-> {}, processed_count |-> 0, failed_count |-> 0, results |-> << >>,
     up |-> FALSE]
NoHist ==
    [fast_ok |-> 0, sweep_ok |-> 0, transitions |-> 0,
     retried |-> FALSE, crashed_after_send |-> FALSE, data |-> {}, msgs |-> {}]

\* wk.up records whether the broker was reachable when the cycle began.

\* events/background.py OutboxProcessor.__init__ (running = False) with the
\* position of its _process_loop task.  aborted, resumed and stopped_in record
\* what the deployment's sweep loop has done: a cycle ended by an error, a
\* cycle begun after that, and where the loop stood when stop() was called.
NoProcessor ==
    [running |-> FALSE, pc |-> "none", batch |-> << >>, idx |-> 0,
     aborted |-> FALSE, resumed |-> FALSE, stopped_in |-> "none"]

\* What one transport attempt (send_and_wait) can end in, and the exception
\* class the client raises for it.
Outcomes == {"ack", "timeout", "unavailable", "rejected", "serialization"}

\* No send_message call made yet on svc.
NoCall ==
    [outs |-> << >>, was_running |-> FALSE, after_stop |-> FALSE,
     raised |-> FALSE, success |-> FALSE, attempts |-> 0, tried |-> 0,
     counted |-> FALSE, delays |-> << >>]

\* kafka_service.py KafkaService as __init__ leaves it before
\* _initialize_producer has run: no producer.  publishes counts the calls of
\* publish_event made on the instance and last records the latest of them.
NoKsvc ==
    [producer |-> "None", publishes |-> 0,
     last |-> [out |-> "none", up |-> FALSE, had_producer |-> FALSE,
               raised |-> FALSE, value |-> FALSE, key |-> << >>]]

\* A send_message coroutine not yet called: its position, the loop variable
\* attempt, its result, and whether another call was in its loop when it began.
NoSend == [pc |-> "idle", attempt |-> 0, success |-> FALSE, concurrent |-> FALSE]

\* A coroutine that has not yet called get_producer_service: its position and
\* whether the producer it was handed was running at that moment.
NoCaller == [pc |-> "idle", got_running |-> FALSE]

\* producer.py KafkaProducerService.__init__: no client, not running, zeroed
\* stats.  stop_called, sends and last record the calls made on the instance,
\* calls the send_message coroutines that run interleaved on it, health the
\* status the last health_check returned and health_broker whether the
\* broker was reachable when it ran.  is_global tells that the module global
\* producer_service refers to the instance, callers are the coroutines that
\* ask get_producer_service for it.
NoSvc ==
    [producer |-> "None", is_running |-> FALSE,
     messages_sent |-> 0, messages_failed |-> 0,
     stop_called |-> FALSE, sends |-> 0, last |-> NoCall,
     calls |-> [c \in CallIds |-> NoSend],
     health |-> "none", health_broker |-> FALSE,
     is_global |-> FALSE, callers |-> [c \in CallIds |-> NoCaller]]

Init ==
    /\ clock = 0
    /\ brokerUp \in BOOLEAN
    /\ deploy \in {"async", "sync", "inprocess"}
    /\ req = [r \in Requests |-> IdleReq]
    /\ events = {}
    /\ outbox = [i \in OutboxIds |-> NoRow]
    /\ nextEventId = 1
    /\ nextOutboxId = 1
    /\ fp = [i \in OutboxIds |-> NoTask]
    /\ celery = [i \in OutboxIds |-> NoCelery]
    /\ wk = IdleWorker
    /\ producer_service = [p \in Procs |-> "None"]
    /\ kafka_service = "None"
    /\ hist = [i \in OutboxIds |-> NoHist]
    /\ env = [faults |-> 0, flips |-> 0, triggers |-> 0]
    /\ processor = NoProcessor
    /\ svc = NoSvc
    /\ ksvc = NoKsvc

\* ------------------------------------------------------------ environment
Tick ==
    /\ clock + TickLen <= MaxClock
    /\ clock' = clock + TickLen
    /\ UNCHANGED << brokerUp, deploy, req, events, outbox, nextEventId, nextOutboxId,
                    fp, celery, wk, producer_service, kafka_service, hist, env,
                    processor, svc,
                    ksvc >>

BrokerFlip ==
    /\ env.flips < MaxBrokerFlips
    /\ brokerUp' = ~brokerUp
    /\ env' = [env EXCEPT !.flips = @ + 1]
    /\ UNCHANGED << clock, deploy, req, events, outbox, nextEventId, nextOutboxId,
                    fp, celery, wk, producer_service, kafka_service, hist, processor, svc,
                    ksvc >>

\* A store operation either succeeds or (while the budget lasts) fails.
StoreOutcomes == IF env.faults < MaxFaults THEN {TRUE, FALSE} ELSE {TRUE}
StoreEnv(ok) == IF ok THEN env ELSE [env EXCEPT !.faults = @ + 1]

\* ------------------------------------------------- ingestion handler
\* receive_event up to and including create_event (db.add, db.commit,
\* db.refresh): the domain row is committed here, in a transaction of its own.
\* A heartbeat builds its model object and touches no table.
create_event(r, kind, ok) ==
    IF ok
    THEN /\ events' = events \cup {[id |-> nextEventId, purpose |-> Purpose(kind)]}
         /\ nextEventId' = nextEventId + 1
         /\ req' = [req EXCEPT ![r] = [@ EXCEPT !.kind = kind, !.pc = "event_saved",
                                                 !.event_id = nextEventId]]
    ELSE /\ req' = [req EXCEPT ![r] = [@ EXCEPT !.kind = kind, !.pc = "done", !.status = 500]]
         /\ UNCHANGED << events, nextEventId >>

receive_event(r) ==
    /\ req[r].pc = "idle"
    /\ \A q \in Requests : q < r => req[q].pc \in {"done", "lost"}
    /\ \E kind \in {"heartBeat", "attendance", "information"} :
          IF kind = "heartBeat"
          THEN /\ req' = [req EXCEPT ![r] = [@ EXCEPT !.kind = kind, !.pc = "done",
                                                       !.status = 200]]
               /\ UNCHANGED << events, nextEventId, env >>
          ELSE \E ok \in StoreOutcomes :
                  /\ create_event(r, kind, ok)
                  /\ env' = StoreEnv(ok)
    /\ UNCHANGED << clock, brokerUp, deploy, outbox, nextOutboxId, fp, celery, wk,
                    producer_service, kafka_service, hist, processor, svc,
                    ksvc >>

\* add_to_outbox (db.add, db.flush) followed by the handler's db.commit: the
\* second transaction of the session.  A failure rolls the outbox row back and
\* is answered with 500; the events row of create_event stays committed.
add_to_outbox(r, ok) ==
    IF ok
    THEN /\ outbox' = [outbox EXCEPT ![nextOutboxId] =
                         OutboxEvent(req[r].event_id, "Event",
                                     "access_control.event_created", r, clock)]
         /\ nextOutboxId' = nextOutboxId + 1
         /\ req' = [req EXCEPT ![r] = [@ EXCEPT !.pc = "committed",
                                                 !.outbox_id = nextOutboxId]]
    ELSE /\ req' = [req EXCEPT ![r] = [@ EXCEPT !.pc = "done", !.status = 500]]
         /\ UNCHANGED << outbox, nextOutboxId >>

\* Faulty variant: the dispatch task is created when the row has been flushed,
\* before the commit.
receive_event_commit_dispatch_first(r) ==
    /\ req[r].pc = "event_saved"
    /\ IF req[r].kind = "attendance"
       THEN \E ok \in StoreOutcomes :
               /\ add_to_outbox(r, ok)
               /\ env' = StoreEnv(ok)
               /\ fp' = [fp EXCEPT ![nextOutboxId] =
                            [pc |-> "scheduled", host |-> "asyncio"]]
       ELSE /\ req' = [req EXCEPT ![r] = [@ EXCEPT !.pc = "done", !.status = 500]]
            /\ UNCHANGED << outbox, nextOutboxId, env, fp >>
    /\ UNCHANGED << clock, brokerUp, deploy, events, nextEventId, celery, wk,
                    producer_service, kafka_service, hist, processor, svc,
                    ksvc >>

\* Lines 87-100 for the row create_event has saved.  For a non-attendance
\* event no outbox row is added, the commit has nothing to write, and the
\* log line that follows reads the unbound name outbox_event: the
\* UnboundLocalError is caught by the handler and answered with 500.
receive_event_commit(r) ==
    /\ req[r].pc = "event_saved"
    /\ IF req[r].kind = "attendance"
       THEN \E ok \in StoreOutcomes :
               /\ add_to_outbox(r, ok)
               /\ env' = StoreEnv(ok)
       ELSE /\ req' = [req EXCEPT ![r] = [@ EXCEPT !.pc = "done", !.status = 500]]
            /\ UNCHANGED << outbox, nextOutboxId, env >>
    /\ UNCHANGED << clock, brokerUp, deploy, events, nextEventId, fp, celery, wk,
                    producer_service, kafka_service, hist, processor, svc,
                    ksvc >>

\* Faulty variant: the handler awaits the dispatch's broker round trip before
\* it answers.
receive_event_respond_awaiting(r) ==
    /\ req[r].pc = "committed"
    /\ brokerUp
    /\ fp' = [fp EXCEPT ![req[r].outbox_id] = [pc |-> "returned", host |-> "asyncio"]]
    /\ req' = [req EXCEPT ![r] = [@ EXCEPT !.pc = "done", !.status = 200]]
    /\ UNCHANGED << clock, brokerUp, deploy, events, outbox, nextEventId, nextOutboxId,
                    celery, wk, producer_service, kafka_service, hist, env,
                    processor, svc,
                    ksvc >>

\* Lines 100-117 after the commit: asyncio.create_task schedules
\* _publish_event_by_id without awaiting it and the response is returned.
receive_event_respond(r) ==
    /\ req[r].pc = "committed"
    /\ fp' = [fp EXCEPT ![req[r].outbox_id] = [pc |-> "scheduled", host |-> "asyncio"]]
    /\ req' = [req EXCEPT ![r] = [@ EXCEPT !.pc = "done", !.status = 200]]
    /\ UNCHANGED << clock, brokerUp, deploy, events, outbox, nextEventId, nextOutboxId,
                    celery, wk, producer_service, kafka_service, hist, env,
                    processor, svc,
                    ksvc >>

\* --------------------------------------------------- producer (producer.py)
\* get_producer_service: the singleton is created once; start() reports a
\* failure by returning False, which get_producer_service ignores, so the
\* instance is kept with is_running = False ("stopped").
get_producer_service(state, up) ==
    IF state = "None" THEN (IF up THEN "running" ELSE "stopped") ELSE state

\* One transport attempt of send_and_wait as the broker's state decides it.
\* str(event.id)
str(n) == << "str", n >>

\* producer.py Message as send_event builds it and asdict() serializes it
\* (the enum priority replaced by its value), with the key send_message
\* derives from it: partition_key or user_id or session_id, all None.
Message(event_type, data, source, priority, correlation_id) ==
    [event_type |-> event_type, data |-> data, source |-> source,
     priority |-> priority, correlation_id |-> correlation_id, key |-> << >>]

\* kafka_service.py publish_event, the message dict (lines 66-71) and its key:
\* no priority and no correlation id.
kafka_message(event_type, data, key) ==
    [event_type |-> event_type, data |-> data, source |-> "event-listener",
     priority |-> "absent", correlation_id |-> << >>, key |-> key]

\* The message the fast path sends for row i: repository.py lines 96-102.
fast_message(i) ==
    Message(outbox[i].event_type, outbox[i].payload, "event-listener", "high", str(i))

\* The message the sweep sends for row i: repository.py lines 38-44 and
\* events/background.py lines 62-68.
sweep_message(i) ==
    Message(outbox[i].event_type, outbox[i].payload, "event-listener", "normal", str(i))

\* The message of simple_tasks.py, fast path (lines 71-76) and sweep (lines
\* 132-137) alike.
simple_message(i) ==
    kafka_message(outbox[i].event_type, outbox[i].payload, str(i))

AttemptOutcome(up) == IF up THEN "ack" ELSE "timeout"

\* The exception send_and_wait raises for a failed attempt: a timeout is a
\* KafkaTimeoutError, every other error reported by the client or the broker
\* (connection lost, message rejected) is a KafkaError, a failure of the value
\* serializer is a plain Exception.
exception_class(out) ==
    CASE out = "timeout" -> "KafkaTimeoutError"
      [] out \in {"unavailable", "rejected"} -> "KafkaError"
      [] OTHER -> "Exception"

\* Faulty variant: the first failed attempt ends the call.
send_attempts_no_retry(attempt, outs) ==
    IF outs[attempt + 1] = "ack"
    THEN [raised |-> FALSE, success |-> TRUE, attempts |-> attempt + 1,
          tried |-> attempt + 1]
    ELSE [raised |-> FALSE, success |-> FALSE, attempts |-> max_retries,
          tried |-> attempt + 1]

\* The retry loop of send_message; attempt counts from 0 as in the code.
\* attempts is the number the result reports, tried the number of
\* send_and_wait calls made.
RECURSIVE send_attempts(_, _)
send_attempts(attempt, outs) ==
    IF attempt >= max_retries
    THEN [raised |-> FALSE, success |-> FALSE, attempts |-> max_retries,
          tried |-> max_retries]
    ELSE IF outs[attempt + 1] = "ack"
         THEN [raised |-> FALSE, success |-> TRUE, attempts |-> attempt + 1,
               tried |-> attempt + 1]
         ELSE IF exception_class(outs[attempt + 1]) \in {"KafkaTimeoutError", "KafkaError"}
              THEN send_attempts(attempt + 1, outs)
              ELSE [raised |-> FALSE, success |-> FALSE, attempts |-> max_retries,
                    tried |-> attempt + 1]

\* asyncio.sleep(self.config.retry_delay * (attempt + 1)), lines 183 and 189.
retry_sleep(attempt) == retry_delay * (attempt + 1)

\* The sleeps the retry loop takes, in order: one after each attempt that
\* failed with a Kafka error, except after the last attempt of the budget
\* ("if attempt < self.config.max_retries - 1").
RECURSIVE send_delays(_, _)
send_delays(attempt, outs) ==
    IF attempt >= max_retries \/ outs[attempt + 1] = "ack"
    THEN << >>
    ELSE IF /\ exception_class(outs[attempt + 1]) \in {"KafkaTimeoutError", "KafkaError"}
            /\ attempt < max_retries - 1
         THEN << retry_sleep(attempt) >> \o send_delays(attempt + 1, outs)
         ELSE << >>

\* send_message / send_event: RuntimeError unless the producer is running.
send_message(state, outs) ==
    IF state # "running"
    THEN [raised |-> TRUE, success |-> FALSE, attempts |-> 0, tried |-> 0]
    ELSE send_attempts(0, outs)

send_event(state, up) == send_message(state, [a \in 1..max_retries |-> AttemptOutcome(up)])

\* ----------------------------- a KafkaProducerService instance on its own
\* The scripts of one call: the outcome of each attempt the loop may make.
\* Attempts after an acknowledged one or after a serializer failure are never
\* made, so their outcome is fixed to "ack".
AttemptScripts ==
    {outs \in [1..max_retries -> Outcomes] :
        \A k \in 1..max_retries :
           outs[k] \in {"ack", "serialization"} =>
              \A j \in (k + 1)..max_retries : outs[j] = "ack"}

\* "not self.is_running or not self.producer" (line 139), as the state
\* send_message tests.
svc_state(v) == IF v.is_running /\ v.producer # "None" THEN "running" ELSE "stopped"

\* KafkaProducerService.start: the client object is assigned before its
\* start() is awaited; is_running is set only when that start returned.
svc_start ==
    /\ ~svc.is_running
    /\ svc' = IF brokerUp
               THEN [svc EXCEPT !.producer = "client", !.is_running = TRUE,
                                !.stop_called = FALSE]
               ELSE [svc EXCEPT !.producer = "client"]
    /\ UNCHANGED << clock, brokerUp, deploy, req, events, outbox, nextEventId, nextOutboxId,
                    fp, celery, wk, producer_service, kafka_service, hist, env,
                    processor,
                    ksvc >>

\* KafkaProducerService.stop: is_running is cleared after the client's stop()
\* returned; when that stop raises, the exception is logged and is_running
\* stays as it was.
svc_stop ==
    /\ ~svc.stop_called
    /\ \E client_stop_ok \in BOOLEAN :
          svc' = IF svc.producer # "None" /\ svc.is_running /\ client_stop_ok
                 THEN [svc EXCEPT !.is_running = FALSE, !.stop_called = TRUE]
                 ELSE [svc EXCEPT !.stop_called = TRUE]
    /\ UNCHANGED << clock, brokerUp, deploy, req, events, outbox, nextEventId, nextOutboxId,
                    fp, celery, wk, producer_service, kafka_service, hist, env,
                    processor,
                    ksvc >>

\* One call of KafkaProducerService.send_message with the statistics it
\* updates: messages_sent on success (line 164), messages_failed after the
\* loop (line 197), nothing when RuntimeError is raised.
svc_send ==
    /\ svc.sends < MaxSends
    /\ \E outs \in AttemptScripts :
          LET res == send_message(svc_state(svc), outs)
          IN svc' = [svc EXCEPT
                       !.sends = @ + 1,
                       !.messages_sent = IF res.success THEN @ + 1 ELSE @,
                       !.messages_failed =
                           IF ~res.raised /\ ~res.success THEN @ + 1 ELSE @,
                       !.last = [outs |-> outs,
                                 was_running |-> svc_state(svc) = "running",
                                 after_stop |-> svc.stop_called,
                                 raised |-> res.raised, success |-> res.success,
                                 attempts |-> res.attempts, tried |-> res.tried,
                                 counted |-> ~res.raised,
                                 delays |-> IF res.raised THEN << >>
                                            ELSE send_delays(0, outs)]]
    /\ UNCHANGED << clock, brokerUp, deploy, req, events, outbox, nextEventId, nextOutboxId,
                    fp, celery, wk, producer_service, kafka_service, hist, env,
                    processor,
                    ksvc >>

\* Faulty variant: the probe asks the broker.
health_check_probing(v) ==
    IF ~v.is_running THEN "down" ELSE IF brokerUp THEN "up" ELSE "down"

\* KafkaProducerService.health_check, the status it returns: "down" unless
\* is_running; otherwise the fixed test message {"health_check": True,
\* "timestamp": <float>} is serialized, which json.dumps does without error,
\* and the status is "up".
health_check(v) == IF ~v.is_running THEN "down" ELSE "up"

\* One call of health_check: it assigns no attribute of the instance.
svc_health_check ==
    /\ svc' = [svc EXCEPT !.health = health_check(svc), !.health_broker = brokerUp]
    /\ UNCHANGED << clock, brokerUp, deploy, req, events, outbox, nextEventId, nextOutboxId,
                    fp, celery, wk, producer_service, kafka_service, hist, env,
                    processor,
                    ksvc >>

\* ------------------------------------ send_message coroutines interleaved
\* Faulty variant: the accounting after the loop is reached by every result.
count_result_failed_always(v, success) ==
    [v EXCEPT !.messages_sent = IF success THEN @ + 1 ELSE @,
              !.messages_failed = @ + 1]

\* The statistics of a returned result: messages_sent += 1 before a success
\* is returned (line 164), messages_failed += 1 after the loop (line 197).
\* Neither statement contains an await, so no other coroutine runs inside it.
count_result(v, success) ==
    [v EXCEPT !.messages_sent = IF success THEN @ + 1 ELSE @,
              !.messages_failed = IF success THEN @ ELSE @ + 1]

\* send_message up to its loop (lines 139-150): RuntimeError unless the
\* producer is running.
send_message_begin(c) ==
    /\ svc.calls[c].pc = "idle"
    /\ svc' = [svc EXCEPT !.calls[c] =
                 IF svc_state(svc) # "running"
                 THEN [@ EXCEPT !.pc = "raised"]
                 ELSE [@ EXCEPT !.pc = "attempting",
                                !.concurrent =
                                   \E d \in CallIds : svc.calls[d].pc = "attempting"]]
    /\ UNCHANGED << clock, brokerUp, deploy, req, events, outbox, nextEventId, nextOutboxId,
                    fp, celery, wk, producer_service, kafka_service, hist, env,
                    processor,
                    ksvc >>

\* One turn of the loop of send_message (lines 152-203), from the await of
\* send_and_wait to the next await or to the return: other coroutines run
\* while send_and_wait and asyncio.sleep are awaited.
send_message_attempt(c) ==
    /\ svc.calls[c].pc = "attempting"
    /\ \E out \in Outcomes :
          LET call == svc.calls[c]
              retry == /\ exception_class(out) \in {"KafkaTimeoutError", "KafkaError"}
                       /\ call.attempt < max_retries - 1
          IN svc' =
                IF out = "ack"
                THEN [count_result(svc, TRUE) EXCEPT
                         !.calls[c] = [call EXCEPT !.pc = "returned", !.success = TRUE]]
                ELSE IF retry
                THEN [svc EXCEPT !.calls[c] = [call EXCEPT !.attempt = @ + 1]]
                ELSE [count_result(svc, FALSE) EXCEPT
                         !.calls[c] = [call EXCEPT !.pc = "returned"]]
    /\ UNCHANGED << clock, brokerUp, deploy, req, events, outbox, nextEventId, nextOutboxId,
                    fp, celery, wk, producer_service, kafka_service, hist, env,
                    processor,
                    ksvc >>

\* ------------------------------- get_producer_service called concurrently
\* get_producer_service up to its first await or its return (lines 336-342).
\* When the global is None the instance is created and assigned to the global,
\* and start() runs up to "await self.producer.start()" (lines 81-100), where
\* the caller is suspended; otherwise the global is returned as it is.
get_producer_service_call(c) ==
    /\ svc.callers[c].pc = "idle"
    /\ svc' = IF ~svc.is_global
               THEN [svc EXCEPT !.is_global = TRUE, !.producer = "client",
                                !.callers[c] = [@ EXCEPT !.pc = "awaiting_start"]]
               ELSE [svc EXCEPT !.callers[c] =
                                   [pc |-> "returned", got_running |-> svc.is_running]]
    /\ UNCHANGED << clock, brokerUp, deploy, req, events, outbox, nextEventId, nextOutboxId,
                    fp, celery, wk, producer_service, kafka_service, hist, env,
                    processor,
                    ksvc >>

\* The client's start() is over: is_running is set when it succeeded (line
\* 101), its exception makes start() return False (lines 107-109); the
\* result is not looked at and the global is returned (line 342).
get_producer_service_resume(c) ==
    /\ svc.callers[c].pc = "awaiting_start"
    /\ svc' = [svc EXCEPT !.is_running = brokerUp,
                          !.callers[c] = [pc |-> "returned", got_running |-> brokerUp]]
    /\ UNCHANGED << clock, brokerUp, deploy, req, events, outbox, nextEventId, nextOutboxId,
                    fp, celery, wk, producer_service, kafka_service, hist, env,
                    processor,
                    ksvc >>

\* A dispatch that has been handed the producer calls send_event on it.
dispatch_send(c) ==
    /\ svc.callers[c].pc = "returned"
    /\ send_message_begin(c)

\* -------------------------------------------- store operations on a row
\* Faulty variant: SELECT ... WHERE id = :id
select_by_id(i) == outbox[i].exists

\* SELECT ... WHERE id = :id AND processed = false
select_unprocessed_by_id(i) == outbox[i].exists /\ ~outbox[i].processed

\* Faulty variant: the UPDATE flips the flag of the row it finds.
mark_processed_toggle(row, now) ==
    IF row.exists THEN [row EXCEPT !.processed = ~@, !.processed_at = now] ELSE row

\* Faulty variant: the UPDATE sets the flag and leaves processed_at alone.
mark_processed_flag_only(row, now) ==
    IF row.exists THEN [row EXCEPT !.processed = TRUE] ELSE row

\* Faulty variant: the UPDATE writes the whole row back and drops its payload.
mark_processed_rewriting(row, now) ==
    IF row.exists
    THEN [row EXCEPT !.processed = TRUE, !.processed_at = now, !.payload = 0]
    ELSE row

\* UPDATE outbox_events SET processed = true, processed_at = now WHERE id = :id
mark_processed(row, now) ==
    IF row.exists THEN [row EXCEPT !.processed = TRUE, !.processed_at = now] ELSE row

\* Rows on which the worker's open transaction holds an uncommitted UPDATE.
LockedByWorker == {m.id : m \in wk.marks}

\* ------------------------------------ fast path: detached asyncio task
\* _publish_event_by_id, the lookup (lines 79-90).
publish_event_by_id_lookup(i) ==
    /\ fp[i].pc = "scheduled"
    /\ \E ok \in StoreOutcomes :
          /\ fp' = [fp EXCEPT ![i].pc =
                       IF ~ok THEN "raised"
                       ELSE IF select_unprocessed_by_id(i) THEN "found" ELSE "returned"]
          /\ env' = StoreEnv(ok)
    /\ UNCHANGED << clock, brokerUp, deploy, req, events, outbox, nextEventId, nextOutboxId,
                    celery, wk, producer_service, kafka_service, hist, processor, svc,
                    ksvc >>

\* Faulty variant: the dispatch of a row waits until every row inserted before
\* it has been published.
publish_event_by_id_send_in_order(i) ==
    /\ fp[i].pc = "found"
    /\ \A k \in OutboxIds :
          (k < i /\ outbox[k].exists) => hist[k].fast_ok + hist[k].sweep_ok > 0
    /\ LET p == get_producer_service(producer_service["server"], brokerUp)
           res == send_event(p, brokerUp)
       IN /\ producer_service' = [producer_service EXCEPT !["server"] = p]
          /\ fp' = [fp EXCEPT ![i].pc = IF res.success THEN "sent_ok" ELSE "raised"]
          /\ hist' = [hist EXCEPT ![i] =
                        IF res.success
                        THEN [@ EXCEPT !.fast_ok = @ + 1,
                                       !.data = @ \cup {outbox[i].payload},
                                       !.msgs = @ \cup {[path |-> "fast",
                                                          message |-> fast_message(i)]}]
                        ELSE @]
    /\ UNCHANGED << clock, brokerUp, deploy, req, events, outbox, nextEventId, nextOutboxId,
                    celery, wk, kafka_service, env, processor, svc,
                    ksvc >>

\* _publish_event_by_id, get_producer_service and send_event (lines 92-102);
\* a failed result is turned into an exception (line 118) that the outer
\* handler logs and raises again (lines 120-122).
publish_event_by_id_send(i) ==
    /\ fp[i].pc = "found"
    /\ LET p == get_producer_service(producer_service["server"], brokerUp)
           res == send_event(p, brokerUp)
       IN /\ producer_service' = [producer_service EXCEPT !["server"] = p]
          /\ fp' = [fp EXCEPT ![i].pc = IF res.success THEN "sent_ok" ELSE "raised"]
          /\ hist' = [hist EXCEPT ![i] =
                        IF res.success
                        THEN [@ EXCEPT !.fast_ok = @ + 1,
                                       !.data = @ \cup {outbox[i].payload},
                                       !.msgs = @ \cup {[path |-> "fast",
                                                          message |-> fast_message(i)]}]
                        ELSE @]
    /\ UNCHANGED << clock, brokerUp, deploy, req, events, outbox, nextEventId, nextOutboxId,
                    celery, wk, kafka_service, env, processor, svc,
                    ksvc >>

\* _publish_event_by_id, the UPDATE and its commit (lines 104-115).  The
\* UPDATE waits while another transaction holds the row.
publish_event_by_id_mark(i) ==
    /\ fp[i].pc = "sent_ok"
    /\ i \notin LockedByWorker
    /\ \E ok \in StoreOutcomes :
          /\ env' = StoreEnv(ok)
          /\ IF ok
             THEN /\ outbox' = [outbox EXCEPT ![i] = mark_processed(@, clock)]
                  /\ fp' = [fp EXCEPT ![i].pc = "returned"]
                  /\ hist' = [hist EXCEPT ![i] = [@ EXCEPT !.transitions = @ + 1]]
             ELSE /\ fp' = [fp EXCEPT ![i].pc = "raised"]
                  /\ UNCHANGED << outbox, hist >>
    /\ UNCHANGED << clock, brokerUp, deploy, req, events, nextEventId, nextOutboxId,
                    celery, wk, producer_service, kafka_service, processor, svc,
                    ksvc >>

\* --------------------------------------- kafka_service.py (worker, sync)
\* get_kafka_service: KafkaService() raises when the producer cannot be
\* initialised, and the global stays None; "raise" stands for that exception.
get_kafka_service(state, up) ==
    IF state = "None" THEN (IF up THEN "ready" ELSE "raise") ELSE state

\* The classes an exception of class cls is an instance of
\* (KafkaTimeoutError < KafkaError < Exception).
Ancestors(cls) ==
    CASE cls = "KafkaTimeoutError" -> {"KafkaTimeoutError", "KafkaError", "Exception"}
      [] cls = "KafkaError" -> {"KafkaError", "Exception"}
      [] OTHER -> {"Exception"}

\* Faulty variant: publish_event without its last handler, "except Exception".
publish_event_result_kafka_only(producer, out) ==
    IF producer = "None"
    THEN [raised |-> FALSE, value |-> FALSE]
    ELSE IF out = "ack"
         THEN [raised |-> FALSE, value |-> TRUE]
         ELSE IF Ancestors(exception_class(out)) \cap {"KafkaTimeoutError", "KafkaError"} # {}
              THEN [raised |-> FALSE, value |-> FALSE]
              ELSE [raised |-> TRUE, value |-> FALSE]

\* KafkaService.publish_event (lines 50-99) for one outcome of producer.send
\* and future.get(timeout=30): False without a producer; True when the future
\* returned the record metadata; an exception is caught by the first of the
\* handlers KafkaTimeoutError, KafkaError, Exception that matches its class,
\* and every handler returns False.
publish_event_result(producer, out) ==
    IF producer = "None"
    THEN [raised |-> FALSE, value |-> FALSE]
    ELSE IF out = "ack"
         THEN [raised |-> FALSE, value |-> TRUE]
         ELSE IF Ancestors(exception_class(out))
                    \cap {"KafkaTimeoutError", "KafkaError", "Exception"} # {}
              THEN [raised |-> FALSE, value |-> FALSE]
              ELSE [raised |-> TRUE, value |-> FALSE]

\* KafkaService.publish_event as the tasks of simple_tasks.py call it, on the
\* instance get_kafka_service returned: True once the broker acknowledged the
\* message, False on a timeout or any other error.
publish_event(state, up) ==
    publish_event_result(IF state = "ready" THEN "client" ELSE "None",
                         AttemptOutcome(up)).value

\* -------------------------------------- a KafkaService instance on its own
\* What producer.send and future.get can end in: no acknowledgement and no
\* rejection come from a broker that cannot be reached.
PublishOutcomes == IF brokerUp THEN Outcomes ELSE Outcomes \ {"ack", "rejected"}

\* KafkaService._initialize_producer (lines 22-48): KafkaProducer(...) connects
\* to the broker; after five failed attempts the exception is raised again
\* and self.producer stays None.
KafkaService_initialize_producer ==
    /\ ksvc.producer = "None"
    /\ ksvc' = [ksvc EXCEPT !.producer = IF brokerUp THEN "client" ELSE "None"]
    /\ UNCHANGED << clock, brokerUp, deploy, req, events, outbox, nextEventId, nextOutboxId,
                    fp, celery, wk, producer_service, kafka_service, hist, env,
                    processor, svc >>

\* One call of KafkaService.publish_event, with the key its caller passes:
\* str(event_id) in simple_tasks.py, None by default.
KafkaService_publish_event ==
    /\ ksvc.publishes < MaxPublishes
    /\ \E out \in PublishOutcomes, key \in {<< >>} \cup {str(i) : i \in OutboxIds} :
          LET res == publish_event_result(ksvc.producer, out)
          IN ksvc' = [ksvc EXCEPT
                        !.publishes = @ + 1,
                        !.last = [out |-> out, up |-> brokerUp,
                                  had_producer |-> ksvc.producer # "None",
                                  raised |-> res.raised, value |-> res.value,
                                  key |-> key]]
    /\ UNCHANGED << clock, brokerUp, deploy, req, events, outbox, nextEventId, nextOutboxId,
                    fp, celery, wk, producer_service, kafka_service, hist, env,
                    processor, svc >>

\* ------------------------------------------ fast path as a Celery task
\* self.retry: the task is queued again while retries < max_retries.
celery_retry(c, max) ==
    IF c.retries < max
    THEN [c EXCEPT !.state = "queued", !.retries = @ + 1]
    ELSE [c EXCEPT !.state = "failed"]

\* The detached asyncio task of row i is still running.
FpActive(i) == fp[i].pc \in {"scheduled", "found", "sent_ok"}

\* The handler of row i is about to create the task, or the task is running.
DispatchInFlight(i) ==
    \/ FpActive(i)
    \/ \E r \in Requests : req[r].pc = "committed" /\ req[r].outbox_id = i

\* tasks/triggers.py trigger_event_publish: publish_single_event.delay(id),
\* called with any id (its row may be missing) that has no dispatch in flight.
trigger_event_publish(i) ==
    /\ deploy = "async"
    /\ env.triggers < MaxTriggers
    /\ celery[i].state = "none"
    /\ ~DispatchInFlight(i)
    /\ celery' = [celery EXCEPT ![i].state = "queued"]
    /\ env' = [env EXCEPT !.triggers = @ + 1]
    /\ UNCHANGED << clock, brokerUp, deploy, req, events, outbox, nextEventId, nextOutboxId,
                    fp, wk, producer_service, kafka_service, hist, processor, svc,
                    ksvc >>

\* simple_tasks.py trigger_immediate_publish: publish_event_immediately.delay(id)
trigger_immediate_publish(i) ==
    /\ deploy = "sync"
    /\ env.triggers < MaxTriggers
    /\ celery[i].state = "none"
    /\ ~DispatchInFlight(i)
    /\ celery' = [celery EXCEPT ![i].state = "queued"]
    /\ env' = [env EXCEPT !.triggers = @ + 1]
    /\ UNCHANGED << clock, brokerUp, deploy, req, events, outbox, nextEventId, nextOutboxId,
                    fp, wk, producer_service, kafka_service, hist, processor, svc,
                    ksvc >>

\* What a send call of the Celery fast path leaves in the history of row i:
\* retried records a send made after an earlier send of the task had failed.
fast_send_hist(i, success) ==
    [hist EXCEPT ![i] =
       [@ EXCEPT !.fast_ok = IF success THEN @ + 1 ELSE @,
                 !.retried = IF celery[i].send_failed THEN TRUE ELSE @,
                 !.data = IF success THEN @ \cup {outbox[i].payload} ELSE @,
                 !.msgs = IF success
                          THEN @ \cup {[path |-> "fast",
                                         message |-> IF deploy = "sync"
                                                     THEN simple_message(i)
                                                     ELSE fast_message(i)]}
                          ELSE @]]

\* tasks/task.py publish_single_event running _publish_event_by_id up to the
\* result of send_event.  Every exception reaches "raise self.retry(...)".
publish_single_event(i) ==
    /\ deploy = "async"
    /\ wk.task = "idle"
    /\ celery[i].state = "queued"
    /\ \E ok \in StoreOutcomes :
          /\ env' = StoreEnv(ok)
          /\ IF ~ok
             THEN /\ celery' = [celery EXCEPT ![i] = celery_retry(@, SingleEventMaxRetries)]
                  /\ UNCHANGED << wk, producer_service, hist >>
             ELSE IF ~select_unprocessed_by_id(i)
             THEN /\ celery' = [celery EXCEPT ![i].state = "done"]
                  /\ UNCHANGED << wk, producer_service, hist >>
             ELSE LET p == get_producer_service(producer_service["worker"], brokerUp)
                      res == send_event(p, brokerUp)
                  IN /\ producer_service' = [producer_service EXCEPT !["worker"] = p]
                     /\ hist' = fast_send_hist(i, res.success)
                     /\ IF res.success
                        THEN /\ wk' = [wk EXCEPT !.task = "publish", !.id = i,
                                                  !.pc = "sent_ok"]
                             /\ celery' = [celery EXCEPT ![i].state = "running"]
                        ELSE /\ celery' = [celery EXCEPT ![i] =
                                   celery_retry([@ EXCEPT !.send_failed = TRUE],
                                                SingleEventMaxRetries)]
                             /\ UNCHANGED wk
    /\ UNCHANGED << clock, brokerUp, deploy, req, events, outbox, nextEventId, nextOutboxId,
                    fp, kafka_service, processor, svc,
                    ksvc >>

\* simple_tasks.py publish_event_immediately up to the result of publish_event.
publish_event_immediately(i) ==
    /\ deploy = "sync"
    /\ wk.task = "idle"
    /\ celery[i].state = "queued"
    /\ \E ok \in StoreOutcomes :
          /\ env' = StoreEnv(ok)
          /\ IF ~ok
             THEN /\ celery' = [celery EXCEPT ![i] = celery_retry(@, ImmediateMaxRetries)]
                  /\ UNCHANGED << wk, kafka_service, hist >>
             ELSE IF ~select_unprocessed_by_id(i)
             THEN /\ celery' = [celery EXCEPT ![i].state = "done"]
                  /\ UNCHANGED << wk, kafka_service, hist >>
             ELSE LET k == get_kafka_service(kafka_service, brokerUp)
                  IN IF k = "raise"
                     THEN /\ celery' = [celery EXCEPT ![i] =
                                           celery_retry(@, ImmediateMaxRetries)]
                          /\ UNCHANGED << wk, kafka_service, hist >>
                     ELSE /\ kafka_service' = k
                          /\ hist' = fast_send_hist(i, publish_event(k, brokerUp))
                          /\ IF publish_event(k, brokerUp)
                             THEN /\ wk' = [wk EXCEPT !.task = "publish", !.id = i,
                                                       !.pc = "sent_ok"]
                                  /\ celery' = [celery EXCEPT ![i].state = "running"]
                             ELSE /\ celery' = [celery EXCEPT ![i] =
                                        celery_retry([@ EXCEPT !.send_failed = TRUE],
                                                     ImmediateMaxRetries)]
                                  /\ UNCHANGED wk
    /\ UNCHANGED << clock, brokerUp, deploy, req, events, outbox, nextEventId, nextOutboxId,
                    fp, producer_service, processor, svc,
                    ksvc >>

\* The UPDATE and commit of the Celery fast path (repository.py lines 104-115
\* under publish_single_event, simple_tasks.py lines 78-87); a store error is
\* an exception and goes to self.retry.
celery_mark(max) ==
    /\ wk.task = "publish"
    /\ wk.pc = "sent_ok"
    /\ \E ok \in StoreOutcomes :
          /\ env' = StoreEnv(ok)
          /\ IF ok
             THEN /\ outbox' = [outbox EXCEPT ![wk.id] = mark_processed(@, clock)]
                  /\ celery' = [celery EXCEPT ![wk.id].state = "done"]
                  /\ hist' = [hist EXCEPT ![wk.id] = [@ EXCEPT !.transitions = @ + 1]]
             ELSE /\ celery' = [celery EXCEPT ![wk.id] = celery_retry(@, max)]
                  /\ UNCHANGED << outbox, hist >>
    /\ wk' = IdleWorker
    /\ UNCHANGED << clock, brokerUp, deploy, req, events, nextEventId, nextOutboxId,
                    fp, producer_service, kafka_service, processor, svc,
                    ksvc >>

publish_single_event_mark ==
    /\ deploy = "async"
    /\ celery_mark(SingleEventMaxRetries)

publish_event_immediately_mark ==
    /\ deploy = "sync"
    /\ celery_mark(ImmediateMaxRetries)

\* ------------------------------------------------------------- the sweep
Min(a, b) == IF a < b THEN a ELSE b

\* Faulty variant: the sweep selects the rows whatever their flag.
eligible_async_any == {i \in OutboxIds : outbox[i].exists}

\* WHERE processed = false (repository.py lines 17-21)
eligible_async == {i \in OutboxIds : outbox[i].exists /\ ~outbox[i].processed}

\* WHERE processed = false AND created_at < NOW() - INTERVAL '30 seconds'
eligible_sync ==
    {i \in OutboxIds : /\ outbox[i].exists
                       /\ ~outbox[i].processed
                       /\ outbox[i].created_at < clock - GraceSeconds}

\* Faulty variant: LIMIT without ORDER BY, any limit rows in any order.
fetch_unprocessed_unordered(eligible, limit) ==
    LET n == Min(limit, Cardinality(eligible))
    IN {s \in [1..n -> eligible] : \A a, b \in 1..n : a < b => s[a] # s[b]}

\* ORDER BY created_at LIMIT limit: every answer the store may give (rows of
\* equal created_at come in any order).
fetch_unprocessed(eligible, limit) ==
    LET n == Min(limit, Cardinality(eligible))
    IN {s \in [1..n -> eligible] :
          /\ \A a, b \in 1..n : a < b =>
                /\ s[a] # s[b]
                /\ outbox[s[a]].created_at <= outbox[s[b]].created_at
          /\ \A j \in eligible \ {s[a] : a \in 1..n} :
                \A a \in 1..n : outbox[s[a]].created_at <= outbox[j].created_at}

\* Faulty variant: the UPDATE is executed whatever the send returned.
sweep_row_mark_always(w, i, success, now) ==
    [w EXCEPT !.idx = @ + 1,
              !.marks = @ \cup {[id |-> i, at |-> now]},
              !.processed_count = IF success THEN @ + 1 ELSE @,
              !.failed_count = IF success THEN @ ELSE @ + 1,
              !.results = Append(@, success)]

\* Faulty variant: a failed send ends the loop, the rest of the batch is skipped.
sweep_row_abort_on_failure(w, i, success, now) ==
    [w EXCEPT !.idx = IF success THEN @ + 1 ELSE Len(w.batch) + 1,
              !.marks = IF success THEN @ \cup {[id |-> i, at |-> now]} ELSE @,
              !.processed_count = IF success THEN @ + 1 ELSE @,
              !.failed_count = IF success THEN @ ELSE @ + 1,
              !.results = Append(@, success)]

\* Faulty variant: a failed send is logged and not counted.
sweep_row_failure_uncounted(w, i, success, now) ==
    [w EXCEPT !.idx = @ + 1,
              !.marks = IF success THEN @ \cup {[id |-> i, at |-> now]} ELSE @,
              !.processed_count = IF success THEN @ + 1 ELSE @,
              !.results = Append(@, success)]

\* The per-row body of the sweep loop: on a successful send the UPDATE is
\* executed in the cycle's transaction and processed_count is incremented;
\* a failed result or an exception increments failed_count.  results keeps
\* the outcome of each send of the cycle.
sweep_row(w, i, success, now) ==
    [w EXCEPT !.idx = @ + 1,
              !.marks = IF success THEN @ \cup {[id |-> i, at |-> now]} ELSE @,
              !.processed_count = IF success THEN @ + 1 ELSE @,
              !.failed_count = IF success THEN @ ELSE @ + 1,
              !.results = Append(@, success)]

sweep_hist(i, success) ==
    [hist EXCEPT ![i] =
       [@ EXCEPT !.sweep_ok = IF success THEN @ + 1 ELSE @,
                 !.data = IF success THEN @ \cup {outbox[i].payload} ELSE @,
                 !.msgs = IF success
                          THEN @ \cup {[path |-> "sweep",
                                         message |-> IF deploy = "sync"
                                                     THEN simple_message(i)
                                                     ELSE sweep_message(i)]}
                          ELSE @]]

\* db.commit() at the end of the cycle: every UPDATE of the cycle at once.
commit_marks(marks) ==
    [i \in OutboxIds |->
        IF \E m \in marks : m.id = i
        THEN mark_processed(outbox[i], (CHOOSE m \in marks : m.id = i).at)
        ELSE outbox[i]]

commit_hist(marks) ==
    [i \in OutboxIds |->
        IF \E m \in marks : m.id = i
        THEN [hist[i] EXCEPT !.transitions = @ + 1]
        ELSE hist[i]]

\* What the start of a sweep cycle leaves in the record of the loop: a cycle
\* begun after an aborted one, and whether this one is aborted by an error.
cycle_obs(p, error) ==
    [p EXCEPT !.resumed = (@ \/ p.aborted), !.aborted = (@ \/ error)]

\* tasks/task.py process_outbox_events -> _process_outbox_batch, the fetch and
\* get_producer_service (lines 14-30).  A store error is raised again and
\* the Celery task asks for a retry.
process_outbox_batch(batch_size) ==
    /\ deploy = "async"
    /\ wk.task = "idle"
    /\ \E ok \in StoreOutcomes :
          /\ env' = StoreEnv(ok)
          /\ processor' = cycle_obs(processor, ~ok)
          /\ IF ~ok
             THEN /\ wk' = IdleWorker
                  /\ UNCHANGED producer_service
             ELSE \E batch \in fetch_unprocessed(eligible_async, batch_size) :
                     IF batch = << >>
                     THEN /\ wk' = IdleWorker
                          /\ UNCHANGED producer_service
                     ELSE /\ wk' = [IdleWorker EXCEPT !.task = "sweep", !.pc = "publishing",
                                                      !.batch = batch, !.idx = 1,
                                                      !.up = brokerUp]
                          /\ producer_service' =
                                [producer_service EXCEPT !["worker"] =
                                    get_producer_service(@, brokerUp)]
    /\ UNCHANGED << clock, brokerUp, deploy, req, events, outbox, nextEventId, nextOutboxId,
                    fp, celery, kafka_service, hist, svc,
                    ksvc >>

\* The cycle as Celery beat starts it.
process_outbox_events == process_outbox_batch(BatchSize)

\* _process_outbox_batch, one iteration of the loop (lines 35-64).
process_outbox_batch_row ==
    /\ deploy = "async"
    /\ wk.task = "sweep"
    /\ wk.idx <= Len(wk.batch)
    /\ LET i == wk.batch[wk.idx]
           res == send_event(producer_service["worker"], brokerUp)
       IN /\ wk' = sweep_row(wk, i, res.success, clock)
          /\ hist' = sweep_hist(i, res.success)
    /\ UNCHANGED << clock, brokerUp, deploy, req, events, outbox, nextEventId, nextOutboxId,
                    fp, celery, producer_service, kafka_service, env, processor, svc,
                    ksvc >>

\* Faulty variant: every UPDATE is committed on its own, so a failed commit at
\* the end leaves the marks of the cycle in the store.
process_outbox_batch_commit_autocommit ==
    /\ deploy = "async"
    /\ wk.task = "sweep"
    /\ wk.idx > Len(wk.batch)
    /\ \E ok \in StoreOutcomes :
          /\ env' = StoreEnv(ok)
          /\ processor' = [processor EXCEPT !.aborted = (@ \/ ~ok)]
          /\ outbox' = commit_marks(wk.marks)
          /\ hist' = commit_hist(wk.marks)
          /\ wk' = IdleWorker
    /\ UNCHANGED << clock, brokerUp, deploy, req, events, nextEventId, nextOutboxId,
                    fp, celery, producer_service, kafka_service, svc,
                    ksvc >>

\* _process_outbox_batch, the commit (lines 66-74).
process_outbox_batch_commit ==
    /\ deploy = "async"
    /\ wk.task = "sweep"
    /\ wk.idx > Len(wk.batch)
    /\ \E ok \in StoreOutcomes :
          /\ env' = StoreEnv(ok)
          /\ processor' = [processor EXCEPT !.aborted = (@ \/ ~ok)]
          /\ IF ok
             THEN /\ outbox' = commit_marks(wk.marks)
                  /\ hist' = commit_hist(wk.marks)
                  /\ wk' = IdleWorker
             ELSE /\ wk' = IdleWorker
                  /\ UNCHANGED << outbox, hist >>
    /\ UNCHANGED << clock, brokerUp, deploy, req, events, nextEventId, nextOutboxId,
                    fp, celery, producer_service, kafka_service, svc,
                    ksvc >>

\* simple_tasks.py process_failed_outbox_events, the fetch and
\* get_kafka_service (lines 104-127).  Every exception ends the cycle with
\* {"status": "error"}.
process_failed_outbox_fetch(limit) ==
    /\ deploy = "sync"
    /\ wk.task = "idle"
    /\ \E ok \in StoreOutcomes :
          /\ env' = StoreEnv(ok)
          /\ IF ~ok
             THEN /\ wk' = IdleWorker
                  /\ processor' = cycle_obs(processor, TRUE)
                  /\ UNCHANGED kafka_service
             ELSE \E batch \in fetch_unprocessed(eligible_sync, limit) :
                     IF batch = << >>
                     THEN /\ wk' = IdleWorker
                          /\ processor' = cycle_obs(processor, FALSE)
                          /\ UNCHANGED kafka_service
                     ELSE LET k == get_kafka_service(kafka_service, brokerUp)
                          IN IF k = "raise"
                             THEN /\ wk' = IdleWorker
                                  /\ processor' = cycle_obs(processor, TRUE)
                                  /\ UNCHANGED kafka_service
                             ELSE /\ wk' = [IdleWorker EXCEPT
                                              !.task = "sweep", !.pc = "publishing",
                                              !.batch = batch, !.idx = 1,
                                              !.up = brokerUp]
                                  /\ processor' = cycle_obs(processor, FALSE)
                                  /\ kafka_service' = k
    /\ UNCHANGED << clock, brokerUp, deploy, req, events, outbox, nextEventId, nextOutboxId,
                    fp, celery, producer_service, hist, svc,
                    ksvc >>

\* The cycle as Celery beat starts it.
process_failed_outbox_events == process_failed_outbox_fetch(BatchSize)

\* process_failed_outbox_events, one iteration of the loop (lines 129-153).
process_failed_outbox_events_row ==
    /\ deploy = "sync"
    /\ wk.task = "sweep"
    /\ wk.idx <= Len(wk.batch)
    /\ LET i == wk.batch[wk.idx]
           success == publish_event(kafka_service, brokerUp)
       IN /\ wk' = sweep_row(wk, i, success, clock)
          /\ hist' = sweep_hist(i, success)
    /\ UNCHANGED << clock, brokerUp, deploy, req, events, outbox, nextEventId, nextOutboxId,
                    fp, celery, producer_service, kafka_service, env, processor, svc,
                    ksvc >>

\* process_failed_outbox_events, the commit and the result (lines 155-172).
process_failed_outbox_events_commit ==
    /\ deploy = "sync"
    /\ wk.task = "sweep"
    /\ wk.idx > Len(wk.batch)
    /\ \E ok \in StoreOutcomes :
          /\ env' = StoreEnv(ok)
          /\ processor' = [processor EXCEPT !.aborted = (@ \/ ~ok)]
          /\ IF ok
             THEN /\ outbox' = commit_marks(wk.marks)
                  /\ hist' = commit_hist(wk.marks)
                  /\ wk' = IdleWorker
             ELSE /\ wk' = IdleWorker
                  /\ UNCHANGED << outbox, hist >>
    /\ UNCHANGED << clock, brokerUp, deploy, req, events, nextEventId, nextOutboxId,
                    fp, celery, producer_service, kafka_service, svc,
                    ksvc >>

\* ------------------------------- the sweep loop inside the server process
\* OutboxProcessor.start: running is set, the shared producer is fetched and
\* the loop task is created.
OutboxProcessor_start ==
    /\ deploy = "inprocess"
    /\ processor.pc = "none"
    /\ processor.stopped_in = "none"
    /\ processor' = [processor EXCEPT !.running = TRUE, !.pc = "loop"]
    /\ producer_service' = [producer_service EXCEPT !["server"] =
                               get_producer_service(@, brokerUp)]
    /\ UNCHANGED << clock, brokerUp, deploy, req, events, outbox, nextEventId, nextOutboxId,
                    fp, celery, wk, kafka_service, hist, env, svc,
                    ksvc >>

\* Faulty variant: stop() cancels the loop task where it stands.
OutboxProcessor_stop_cancelling ==
    /\ processor.running
    /\ processor' = [processor EXCEPT !.running = FALSE, !.stopped_in = processor.pc,
                                      !.pc = "exited", !.batch = << >>, !.idx = 0]
    /\ UNCHANGED << clock, brokerUp, deploy, req, events, outbox, nextEventId, nextOutboxId,
                    fp, celery, wk, producer_service, kafka_service, hist, env, svc,
                    ksvc >>

\* OutboxProcessor.stop: running is cleared, nothing else.
OutboxProcessor_stop ==
    /\ processor.running
    /\ processor' = [processor EXCEPT !.running = FALSE, !.stopped_in = processor.pc]
    /\ UNCHANGED << clock, brokerUp, deploy, req, events, outbox, nextEventId, nextOutboxId,
                    fp, celery, wk, producer_service, kafka_service, hist, env, svc,
                    ksvc >>

\* Faulty variant: an exception of the cycle ends the loop.
process_loop_error_exits(p) == [p EXCEPT !.pc = "exited"]

\* _process_loop, "except Exception" (lines 39-41): the error is logged and
\* the loop sleeps 5 seconds before its next turn.
process_loop_error(p) == [p EXCEPT !.pc = "backoff"]

\* _process_loop, the test of "while self.running" and, when it holds, the
\* fetch of _process_batch (lines 35-37, 45-56).
process_loop ==
    /\ processor.pc = "loop"
    /\ IF ~processor.running
       THEN /\ processor' = [processor EXCEPT !.pc = "exited"]
            /\ UNCHANGED env
       ELSE \E ok \in StoreOutcomes :
               /\ env' = StoreEnv(ok)
               /\ IF ~ok
                  THEN processor' = cycle_obs(process_loop_error(processor), TRUE)
                  ELSE \E batch \in fetch_unprocessed(eligible_async, BatchSize) :
                          processor' =
                             cycle_obs([processor EXCEPT
                                          !.pc = IF batch = << >> THEN "sleep" ELSE "row",
                                          !.batch = batch,
                                          !.idx = IF batch = << >> THEN 0 ELSE 1],
                                       FALSE)
    /\ UNCHANGED << clock, brokerUp, deploy, req, events, outbox, nextEventId, nextOutboxId,
                    fp, celery, wk, producer_service, kafka_service, hist, svc,
                    ksvc >>

\* The loop of _process_batch moves to its next row, or the batch is done and
\* _process_loop sleeps poll_interval.
process_batch_next(p) ==
    IF p.idx + 1 > Len(p.batch)
    THEN [p EXCEPT !.pc = "sleep", !.batch = << >>, !.idx = 0]
    ELSE [p EXCEPT !.pc = "row", !.idx = @ + 1]

\* _process_batch, the send of one row (lines 60-69, 77-81): a failed result
\* and an exception are logged and the loop goes on.
process_batch_send ==
    /\ processor.pc = "row"
    /\ LET i == processor.batch[processor.idx]
           res == send_event(producer_service["server"], brokerUp)
       IN /\ processor' = IF res.success
                          THEN [processor EXCEPT !.pc = "sent_ok"]
                          ELSE process_batch_next(processor)
          /\ hist' = sweep_hist(i, res.success)
    /\ UNCHANGED << clock, brokerUp, deploy, req, events, outbox, nextEventId, nextOutboxId,
                    fp, celery, wk, producer_service, kafka_service, env, svc,
                    ksvc >>

\* _process_batch, the mark of a sent row and its commit (lines 71-76); a
\* store error is caught by the row's except clause (lines 80-81).
process_batch_commit ==
    /\ processor.pc = "sent_ok"
    /\ LET i == processor.batch[processor.idx]
       IN \E ok \in StoreOutcomes :
             /\ env' = StoreEnv(ok)
             /\ IF ok
                THEN /\ outbox' = [outbox EXCEPT ![i] = mark_processed(@, clock)]
                     /\ hist' = [hist EXCEPT ![i] = [@ EXCEPT !.transitions = @ + 1]]
                ELSE UNCHANGED << outbox, hist >>
    /\ processor' = process_batch_next(processor)
    /\ UNCHANGED << clock, brokerUp, deploy, req, events, nextEventId, nextOutboxId,
                    fp, celery, wk, producer_service, kafka_service, svc,
                    ksvc >>

\* _process_loop, the end of asyncio.sleep (poll_interval after a cycle, 5
\* seconds after an error): back to the test of the loop.
process_loop_sleep ==
    /\ processor.pc \in {"sleep", "backoff"}
    /\ processor' = [processor EXCEPT !.pc = "loop"]
    /\ UNCHANGED << clock, brokerUp, deploy, req, events, outbox, nextEventId, nextOutboxId,
                    fp, celery, wk, producer_service, kafka_service, hist, env, svc,
                    ksvc >>

\* ---------------------------------------------------------------- crashes
\* The server process dies: handlers in progress and detached tasks are gone,
\* open transactions are rolled back, the process's globals are lost.
ServerCrash ==
    /\ env.faults < MaxFaults
    /\ \/ \E r \in Requests : req[r].pc \in {"event_saved", "committed"}
       \/ \E i \in OutboxIds : FpActive(i)
       \/ processor.pc \notin {"none", "exited"}
    /\ req' = [r \in Requests |->
                 IF req[r].pc \in {"event_saved", "committed"}
                 THEN [req[r] EXCEPT !.pc = "lost"] ELSE req[r]]
    /\ fp' = [i \in OutboxIds |-> IF FpActive(i) THEN [fp[i] EXCEPT !.pc = "lost"] ELSE fp[i]]
    /\ hist' = [i \in OutboxIds |->
                  IF fp[i].pc = "sent_ok"
                  THEN [hist[i] EXCEPT !.crashed_after_send = TRUE] ELSE hist[i]]
    /\ producer_service' = [producer_service EXCEPT !["server"] = "None"]
    /\ processor' = [NoProcessor EXCEPT !.aborted = processor.aborted,
                                        !.resumed = processor.resumed]
    /\ env' = [env EXCEPT !.faults = @ + 1]
    /\ UNCHANGED << clock, brokerUp, deploy, events, outbox, nextEventId, nextOutboxId,
                    celery, wk, kafka_service, svc,
                    ksvc >>

\* The worker process dies in a task: its transaction is rolled back, its
\* globals are lost; with task_acks_late the fast-path task is delivered again.
WorkerCrash ==
    /\ env.faults < MaxFaults
    /\ wk.task # "idle"
    /\ wk' = IdleWorker
    /\ celery' = [i \in OutboxIds |->
                    IF wk.task = "publish" /\ wk.id = i
                    THEN [celery[i] EXCEPT !.state = "queued"] ELSE celery[i]]
    /\ hist' = [i \in OutboxIds |->
                  IF wk.task = "publish" /\ wk.id = i
                  THEN [hist[i] EXCEPT !.crashed_after_send = TRUE] ELSE hist[i]]
    /\ producer_service' = [producer_service EXCEPT !["worker"] = "None"]
    /\ kafka_service' = "None"
    /\ env' = [env EXCEPT !.faults = @ + 1]
    /\ UNCHANGED << clock, brokerUp, deploy, req, events, outbox, nextEventId, nextOutboxId,
                    fp, processor, svc,
                    ksvc >>

\* ------------------------------------------------------------ specification
Next ==
    \/ Tick
    \/ BrokerFlip
    \/ \E r \in Requests : receive_event(r)
    \/ \E r \in Requests : receive_event_commit(r)
    \/ \E r \in Requests : receive_event_respond(r)
    \/ \E i \in OutboxIds : publish_event_by_id_lookup(i)
    \/ \E i \in OutboxIds : publish_event_by_id_send(i)
    \/ \E i \in OutboxIds : publish_event_by_id_mark(i)
    \/ \E i \in OutboxIds : trigger_event_publish(i)
    \/ \E i \in OutboxIds : trigger_immediate_publish(i)
    \/ \E i \in OutboxIds : publish_single_event(i)
    \/ \E i \in OutboxIds : publish_event_immediately(i)
    \/ publish_single_event_mark
    \/ publish_event_immediately_mark
    \/ process_outbox_events
    \/ process_outbox_batch_row
    \/ process_outbox_batch_commit
    \/ process_failed_outbox_events
    \/ process_failed_outbox_events_row
    \/ process_failed_outbox_events_commit
    \/ OutboxProcessor_start
    \/ OutboxProcessor_stop
    \/ process_loop
    \/ process_batch_send
    \/ process_batch_commit
    \/ process_loop_sleep
    \/ ServerCrash
    \/ WorkerCrash

Spec == Init /\ [][Next]_vars

\* The sweep under its scheduler: Celery beat starts a cycle on every period
\* and the worker runs each cycle to its end, and time passes.  Requests are
\* taken while the clock can still advance past the grace window.
SweepStep ==
    \/ process_outbox_events
    \/ process_outbox_batch_row
    \/ process_outbox_batch_commit
    \/ process_failed_outbox_events
    \/ process_failed_outbox_events_row
    \/ process_failed_outbox_events_commit

LiveNext ==
    \/ Tick
    \/ BrokerFlip
    \/ (clock < MaxClock /\ \E r \in Requests : receive_event(r))
    \/ (clock < MaxClock /\ \E r \in Requests : receive_event_commit(r))
    \/ \E r \in Requests : receive_event_respond(r)
    \/ \E i \in OutboxIds : publish_event_by_id_lookup(i)
    \/ \E i \in OutboxIds : publish_event_by_id_send(i)
    \/ \E i \in OutboxIds : publish_event_by_id_mark(i)
    \/ SweepStep
    \/ ServerCrash
    \/ WorkerCrash

\* The deployments in which Celery beat schedules the sweep.
LiveInit == Init /\ deploy \in {"async", "sync"}

LiveSpec == LiveInit /\ [][LiveNext]_vars /\ WF_vars(Tick) /\ WF_vars(SweepStep)

\* The sweeps with a batch size below the number of rows the outbox can hold:
\* the fetch is ORDER BY created_at LIMIT batch_size, whatever was fetched
\* before (tasks/repository.py:16-22, simple_tasks.py:106-117).
StarveSweepStep ==
    \/ process_outbox_batch(SmallBatch)
    \/ process_outbox_batch_row
    \/ process_outbox_batch_commit
    \/ process_failed_outbox_fetch(SmallBatch)
    \/ process_failed_outbox_events_row
    \/ process_failed_outbox_events_commit

\* A row of the synchronous deployment inserted at the last instant of the
\* clock would never leave its grace window, so none is inserted then.
StarveNext ==
    \/ Tick
    \/ BrokerFlip
    \/ ((deploy = "sync" => clock < MaxClock) /\ \E r \in Requests : receive_event(r))
    \/ ((deploy = "sync" => clock < MaxClock) /\ \E r \in Requests : receive_event_commit(r))
    \/ \E r \in Requests : receive_event_respond(r)
    \/ \E i \in OutboxIds : publish_event_by_id_lookup(i)
    \/ \E i \in OutboxIds : publish_event_by_id_send(i)
    \/ \E i \in OutboxIds : publish_event_by_id_mark(i)
    \/ StarveSweepStep
    \/ ServerCrash
    \/ WorkerCrash

StarveSpec ==
    LiveInit /\ [][StarveNext]_vars /\ WF_vars(Tick) /\ WF_vars(StarveSweepStep)

\* The sweep loop of every deployment under its scheduler: Celery beat for the
\* worker's sweeps, the server's event loop for the OutboxProcessor task; its
\* owner may stop the OutboxProcessor at any time.
ProcessorStep ==
    \/ OutboxProcessor_start
    \/ process_loop
    \/ process_batch_send
    \/ process_batch_commit
    \/ process_loop_sleep

LoopNext ==
    \/ LiveNext
    \/ ProcessorStep
    \/ OutboxProcessor_stop

LoopSpec ==
    Init /\ [][LoopNext]_vars
         /\ WF_vars(Tick) /\ WF_vars(SweepStep) /\ WF_vars(ProcessorStep)

\* The three sweeps, the two of Celery beat called with either batch size, over
\* rows inserted at any instant.
FetchNext ==
    \/ StarveNext
    \/ process_outbox_events
    \/ process_failed_outbox_events
    \/ ProcessorStep
    \/ OutboxProcessor_stop

FetchSpec == Init /\ [][FetchNext]_vars

\* The server process alone: the handler and the detached tasks it creates.
IngestNext ==
    \/ Tick
    \/ BrokerFlip
    \/ \E r \in Requests : receive_event(r)
    \/ \E r \in Requests : receive_event_commit(r)
    \/ \E r \in Requests : receive_event_respond(r)
    \/ \E i \in OutboxIds : publish_event_by_id_lookup(i)
    \/ \E i \in OutboxIds : publish_event_by_id_send(i)
    \/ \E i \in OutboxIds : publish_event_by_id_mark(i)
    \/ ServerCrash

IngestSpec == Init /\ [][IngestNext]_vars

\* A producer instance created, started, used and stopped by its owner, with
\* the broker reachable or not.
ProducerNext ==
    \/ svc_start
    \/ svc_stop
    \/ svc_send

\* The rest of the system does not act here, so one deployment stands for all.
ProducerInit == Init /\ deploy = "async"

ProducerSpec == ProducerInit /\ [][ProducerNext]_vars

\* Callers that share one producer instance and send at the same time, while
\* its owner starts and stops it.
SendNext ==
    \/ svc_start
    \/ svc_stop
    \/ \E c \in CallIds : send_message_begin(c)
    \/ \E c \in CallIds : send_message_attempt(c)

SendSpec == ProducerInit /\ [][SendNext]_vars

\* A producer instance started, used, probed and stopped by its owner while
\* the broker comes and goes.
HealthNext ==
    \/ ProducerNext
    \/ svc_health_check
    \/ BrokerFlip

HealthSpec == ProducerInit /\ [][HealthNext]_vars

\* The dispatches of one process that ask for the shared producer at the same
\* time and send on it.
StartupNext ==
    \/ \E c \in CallIds : get_producer_service_call(c)
    \/ \E c \in CallIds : get_producer_service_resume(c)
    \/ \E c \in CallIds : dispatch_send(c)
    \/ \E c \in CallIds : send_message_attempt(c)
    \/ BrokerFlip

StartupSpec == ProducerInit /\ [][StartupNext]_vars

\* A KafkaService instance on its own: its construction and calls of
\* publish_event, with the broker coming and going.
KafkaNext ==
    \/ KafkaService_initialize_producer
    \/ KafkaService_publish_event
    \/ BrokerFlip

KafkaSpec == Init /\ [][KafkaNext]_vars

\* =================================================================== claims

\* C1: the domain event row and its outbox row are persisted atomically: once
\* the handler has ended (with a response or by a crash), an attendance event
\* row is committed only together with its outbox row.
C1_DomainAndOutboxAtomic ==
    \A r \in Requests :
       (req[r].pc \in {"done", "lost"} /\ req[r].kind = "attendance") =>
          \A e \in events :
             e.id = req[r].event_id =>
                \E i \in OutboxIds : outbox[i].exists /\ outbox[i].aggregate_id = e.id

\* C3: a row becomes processed (and gets its processed_at) only after a broker
\* send for that row returned success, and a dispatcher whose send failed
\* writes nothing to the row: the sweep's failed send leaves the store and the
\* cycle's pending updates as they were, and a fast path that has raised does
\* nothing more.
C3_Step ==
    /\ \A i \in OutboxIds :
          (outbox'[i].processed # outbox[i].processed
             \/ outbox'[i].processed_at # outbox[i].processed_at) =>
             hist[i].fast_ok + hist[i].sweep_ok > 0
    /\ (wk.task = "sweep" /\ wk'.failed_count > wk.failed_count) =>
          (outbox' = outbox /\ wk'.marks = wk.marks)
    /\ \A m \in wk'.marks : hist'[m.id].sweep_ok > 0
    /\ \A i \in OutboxIds :
          (fp[i].pc = "found" /\ fp'[i].pc = "raised") => outbox' = outbox
    /\ \A i \in OutboxIds : fp[i].pc = "raised" => fp'[i].pc = "raised"

C3_MarkOnlyAfterSuccess == [][C3_Step]_vars

C3_Witness ==
    \E i, j \in OutboxIds :
       /\ fp[i].pc = "raised" /\ outbox[i].exists
       /\ ~outbox[i].processed /\ outbox[i].processed_at = NULL
       /\ hist[i].fast_ok + hist[i].sweep_ok = 0
       /\ wk.task = "sweep" /\ wk.failed_count > 0 /\ wk.idx > Len(wk.batch)
       /\ outbox[j].processed /\ hist[j].fast_ok > 0

\* C2: every inserted row is eventually processed once the broker is and stays
\* reachable.
C2_EventuallyProcessed ==
    \A i \in OutboxIds :
       []((outbox[i].exists /\ []brokerUp) => <>outbox[i].processed)

\* C6: a fast path that crashed between its successful send and its mark
\* leaves the row to the sweep, which publishes the event again (the broker
\* being reachable from then on).
C6_RepublishedAfterCrash ==
    \A i \in OutboxIds :
       []((hist[i].crashed_after_send /\ []brokerUp) => <>(hist[i].sweep_ok > 0))

\* C4: once processed_at has been set it never changes.
C4_ProcessedAtFixed ==
    [][\A i \in OutboxIds :
          outbox[i].processed_at # NULL =>
             outbox'[i].processed_at = outbox[i].processed_at]_vars

\* C5: of the dispatchers that sent the same row successfully, exactly one
\* records the row as processed by itself.
C5_SingleTransition == \A i \in OutboxIds : hist[i].transitions <= 1

\* C7: a sweep cycle that reaches its commit has attempted every fetched row,
\* whatever failed before; after the commit every row whose send succeeded is
\* processed and every row whose send failed is as the cycle found it.
C7_Step ==
    (wk.task = "sweep" /\ wk.idx > Len(wk.batch) /\ wk'.task = "idle" /\ env' = env) =>
       /\ Len(wk.results) = Len(wk.batch)
       /\ \A k \in 1..Len(wk.batch) :
             IF wk.results[k]
             THEN outbox'[wk.batch[k]].processed
             ELSE outbox'[wk.batch[k]] = outbox[wk.batch[k]]

C8_NoFastPathRetry == \A i \in OutboxIds : ~hist[i].retried

\* C9: the fast-path dispatch never ends by propagating an exception.
C9_NoExceptionPropagates == \A i \in OutboxIds : fp[i].pc # "raised"

\* C10: once the handler's transaction is committed the response can be
\* returned at once, whatever the broker's state and the dispatch's progress.
C10_ResponseNeverWaits ==
    \A r \in Requests : req[r].pc = "committed" => ENABLED receive_event_respond(r)

C10_Witness ==
    \E r \in Requests :
       /\ req[r].kind = "attendance" /\ req[r].pc = "done" /\ req[r].status = 200
       /\ ~brokerUp
       /\ fp[req[r].outbox_id].pc = "scheduled"

\* C16: a send call on a started producer returns a result after at most
\* max_retries attempts: success at the first acknowledged attempt, and a
\* failed result after max_retries attempts when every attempt met a transient
\* error.
C16_BoundedSend ==
    LET c == svc.last
        Transient == {"timeout", "unavailable"}
    IN (svc.sends > 0 /\ c.was_running) =>
          /\ ~c.raised
          /\ c.tried \in 1..max_retries
          /\ c.success <=> c.outs[c.tried] = "ack"
          /\ \A k \in 1..max_retries :
                (c.outs[k] = "ack" /\ \A j \in 1..(k - 1) : c.outs[j] \in Transient) =>
                   (c.success /\ c.tried = k)
          /\ (\A k \in 1..max_retries : c.outs[k] \in Transient) =>
                (~c.success /\ c.tried = max_retries)

C16_Witness ==
    /\ svc.sends > 0 /\ svc.last.was_running
    /\ \A k \in 1..max_retries : svc.last.outs[k] \in {"timeout", "unavailable"}
    /\ ~svc.last.success /\ svc.last.tried = max_retries
    /\ svc.messages_failed = 1

\* C17: an attempt that meets a non-transient error (the message rejected by
\* the broker, a serialization failure) is the last attempt of its call, and
\* the call fails.
C17_NoRetryOfNonTransient ==
    LET c == svc.last
    IN (svc.sends > 0 /\ c.was_running) =>
          \A k \in 1..c.tried :
             c.outs[k] \in {"rejected", "serialization"} => (c.tried = k /\ ~c.success)

\* C18: a send made while the producer is not started, or after stop() was
\* called, raises at once: no transport attempt, no counter changed.
C18_FailFastWhenNotStarted ==
    LET c == svc.last
    IN (svc.sends > 0 /\ (c.after_stop \/ ~c.was_running)) =>
          (c.raised /\ c.tried = 0 /\ ~c.counted)

\* C11: a request with an access-control event (attendance or not) whose
\* store writes all succeed is answered with success; no store operation has
\* failed and no process has died while env.faults = 0.
C11_SuccessWhenStoreSucceeds ==
    \A r \in Requests :
       (req[r].pc = "done" /\ req[r].kind \in {"attendance", "information"}
          /\ env.faults = 0) =>
          req[r].status = 200

\* C12: every row of a sweep batch is unprocessed when fetched and at least
\* the grace window old; the clock never runs backwards, so a row that is
\* younger than the window while its batch is swept was younger when fetched.
C12_SweepRespectsGrace ==
    /\ wk.task = "sweep" =>
          \A k \in 1..Len(wk.batch) :
             outbox[wk.batch[k]].created_at <= clock - GraceSeconds
    /\ \A k \in 1..Len(processor.batch) :
          outbox[processor.batch[k]].created_at <= clock - GraceSeconds

\* C13: a fast-path dispatch whose lookup succeeds and finds the row missing
\* or already processed ends without error, sends nothing (no producer is
\* fetched, no send is recorded) and changes no row.
C13_Step ==
    /\ \A i \in OutboxIds :
          (/\ fp[i].pc = "scheduled"
           /\ fp'[i].pc \notin {"scheduled", "lost"}
           /\ (~outbox[i].exists \/ outbox[i].processed)
           /\ env' = env) =>
             /\ fp'[i].pc = "returned"
             /\ outbox' = outbox /\ hist' = hist
             /\ producer_service' = producer_service
    /\ \A i \in OutboxIds :
          (/\ celery[i].state = "queued"
           /\ celery'[i] # celery[i]
           /\ (~outbox[i].exists \/ outbox[i].processed)
           /\ env' = env) =>
             /\ celery'[i].state = "done"
             /\ celery'[i].retries = celery[i].retries
             /\ outbox' = outbox /\ hist' = hist /\ wk' = wk
             /\ producer_service' = producer_service
             /\ kafka_service' = kafka_service

C13_NoOpWhenNothingToPublish == [][C13_Step]_vars

C13_Witness ==
    /\ \E i \in OutboxIds :
          /\ fp[i].pc = "returned"
          /\ outbox[i].processed /\ hist[i].fast_ok = 0 /\ hist[i].transitions = 1
    /\ \E j \in OutboxIds :
          /\ ~outbox[j].exists
          /\ celery[j].state = "done" /\ celery[j].retries = 0

\* C14: no step takes a row's processed flag from true back to false.
C14_ProcessedNeverReverts ==
    [][\A i \in OutboxIds : outbox[i].processed => outbox'[i].processed]_vars

C14_Witness ==
    \E i \in OutboxIds : outbox[i].processed /\ hist[i].transitions >= 2

\* C15: in the committed store a row's processed_at is null exactly when its
\* processed flag is false.
C15_ProcessedAtIffProcessed ==
    \A i \in OutboxIds :
       outbox[i].exists => (outbox[i].processed_at = NULL <=> ~outbox[i].processed)

C15_Witness ==
    /\ deploy = "inprocess"
    /\ \E i, j \in OutboxIds :
          /\ outbox[i].processed /\ outbox[i].processed_at # NULL
          /\ hist[i].sweep_ok > 0
          /\ outbox[j].exists /\ ~outbox[j].processed /\ outbox[j].processed_at = NULL
          /\ fp[j].pc = "raised"

\* C19: an error that ends a sweep cycle does not end the sweep loop: after an
\* aborted cycle a further cycle is begun (unless the loop's owner stops it
\* first), and the loop is found exited only after stop() was called.
C19_LoopSurvivesErrors ==
    /\ processor.aborted ~> (processor.resumed \/ processor.stopped_in # "none")
    /\ [](processor.pc = "exited" => processor.stopped_in # "none")

C19_Witness ==
    /\ deploy = "inprocess"
    /\ processor.aborted /\ processor.resumed
    /\ processor.running /\ processor.pc = "row"

\* C20: stop() leaves the cycle in progress as it is; after it the cycle runs
\* to its end (a row already sent is still marked when its commit succeeds),
\* the loop begins no new cycle, and it exits.
C20_Step ==
    LET stopped == processor.stopped_in # "none"
        stoppedNext == processor'.stopped_in # "none"
    IN /\ (~stopped /\ stoppedNext) =>
             /\ processor'.pc = processor.pc
             /\ processor'.batch = processor.batch
             /\ processor'.idx = processor.idx
       /\ (stopped /\ stoppedNext /\ processor' # processor) =>
             /\ processor.pc # "exited"
             /\ processor.pc = "loop" => processor'.pc = "exited"
             /\ processor.pc = "row" => processor'.pc \in {"row", "sent_ok", "sleep"}
             /\ processor.pc = "sent_ok" =>
                   /\ processor'.pc \in {"row", "sleep"}
                   /\ env' = env => outbox'[processor.batch[processor.idx]].processed
             /\ processor.pc \in {"sleep", "backoff"} => processor'.pc = "loop"

C20_GracefulStop ==
    /\ [][C20_Step]_vars
    /\ (processor.stopped_in # "none") ~>
          (processor.pc = "exited" \/ processor.stopped_in = "none")

C20_Witness ==
    /\ processor.stopped_in = "sent_ok" /\ processor.pc = "exited"
    /\ Cardinality({i \in OutboxIds : outbox[i].exists}) = 1
    /\ \E i \in OutboxIds :
          /\ outbox[i].processed
          /\ hist[i].sweep_ok = 1 /\ hist[i].fast_ok = 0 /\ hist[i].transitions = 1

\* C30: a failed first start of the shared producer is not kept: a dispatch
\* or a sweep send made while the broker is reachable has a started producer
\* and its send succeeds.
C30_Step ==
    /\ \A i \in OutboxIds :
          (fp[i].pc = "found" /\ fp'[i].pc \notin {"found", "lost"} /\ brokerUp) =>
             /\ producer_service'["server"] = "running"
             /\ fp'[i].pc = "sent_ok"
    /\ (deploy = "async" /\ wk.task = "idle" /\ wk'.task = "sweep" /\ brokerUp) =>
          producer_service'["worker"] = "running"
    /\ (deploy = "async" /\ wk.task = "sweep" /\ wk'.task = "sweep"
          /\ wk'.idx = wk.idx + 1 /\ wk.up /\ brokerUp) =>
             wk'.results[wk.idx]

C30_FailedStartNotCached == [][C30_Step]_vars

\* C21: a row whose fast-path send failed and that no one has published is
\* sent successfully by a sweep cycle that runs after the grace window with
\* the broker reachable from its beginning, exactly one successful send is
\* recorded for it, and the cycle's commit leaves it processed with
\* processed_at set.  No store operation fails and no process dies while
\* env.faults = 0.
C21_Step ==
    /\ (wk.task = "sweep" /\ wk'.task = "sweep" /\ wk'.idx = wk.idx + 1) =>
          LET i == wk.batch[wk.idx]
          IN (/\ wk.up /\ brokerUp /\ env.faults = 0
              /\ fp[i].pc = "raised" /\ hist[i].fast_ok + hist[i].sweep_ok = 0
              /\ outbox[i].created_at < clock - GraceSeconds) =>
                 /\ wk'.results[wk.idx]
                 /\ hist'[i].fast_ok + hist'[i].sweep_ok = 1
                 /\ \E m \in wk'.marks : m.id = i
    /\ (wk.task = "sweep" /\ wk.idx > Len(wk.batch) /\ wk'.task = "idle"
          /\ env' = env) =>
          \A m \in wk.marks :
             outbox'[m.id].processed /\ outbox'[m.id].processed_at # NULL

C21_SweepPublishesFailedRow == [][C21_Step]_vars

\* C22: publication order across the two paths is not guaranteed.  No
\* dispatch waits for the rows inserted before its own: the fast path's send
\* for a row it has found can always be made, whatever has become of earlier
\* rows; so a row can be published by the fast path while an earlier row, whose
\* fast path failed, is published only later by the sweep.
C22_NoOrderingAcrossPaths ==
    \A j \in OutboxIds : fp[j].pc = "found" => ENABLED publish_event_by_id_send(j)

C22_Witness ==
    \E i, j \in OutboxIds :
       /\ i < j /\ outbox[i].created_at <= outbox[j].created_at
       /\ fp[i].pc = "raised" /\ hist[i].fast_ok = 0
       /\ hist[i].sweep_ok = 1 /\ outbox[i].processed
       /\ hist[j].fast_ok = 1 /\ hist[j].sweep_ok = 0 /\ outbox[j].processed
       /\ outbox[j].processed_at < outbox[i].processed_at

\* C23: whatever the interleaving of the sends on the shared producer,
\* messages_sent counts the calls that returned a success and messages_failed
\* the calls that returned a failure, so that their sum is the number of
\* calls that returned a result; a call that raised because the producer was
\* not started has changed neither.
C23_CountersMatchResults ==
    LET Returned == {c \in CallIds : svc.calls[c].pc = "returned"}
    IN /\ svc.messages_sent = Cardinality({c \in Returned : svc.calls[c].success})
       /\ svc.messages_failed = Cardinality({c \in Returned : ~svc.calls[c].success})
       /\ svc.messages_sent + svc.messages_failed = Cardinality(Returned)

C23_Witness ==
    \E c, d \in CallIds :
       /\ svc.calls[c].pc = "returned" /\ svc.calls[c].success
       /\ svc.calls[c].attempt > 0
       /\ svc.calls[d].pc = "returned" /\ ~svc.calls[d].success
       /\ svc.calls[d].concurrent
       /\ svc.messages_sent = 1 /\ svc.messages_failed = 1

C25_Step ==
    \A i \in OutboxIds :
       /\ (fp[i].pc = "none" /\ fp'[i].pc # "none") => outbox[i].exists
       /\ fp'[i].pc # "none" => outbox'[i].exists
       /\ (fp[i].pc = "scheduled" /\ fp'[i].pc = "returned") =>
             (outbox[i].exists /\ outbox[i].processed)

C25_DispatchAfterCommit == [][C25_Step]_vars

C25_Witness ==
    \E r \in Requests :
       /\ req[r].pc = "done" /\ req[r].status = 200 /\ req[r].kind = "attendance"
       /\ fp[req[r].outbox_id].pc = "found"
       /\ outbox[req[r].outbox_id].exists

\* C26: the sleep that follows failed attempt k (k = 0, 1, ...) of a send is
\* retry_delay * 2^k, and the last attempt of the budget is followed by none.
C26_ExponentialBackoff ==
    LET c == svc.last
    IN (svc.sends > 0 /\ c.was_running) =>
          /\ Len(c.delays) <= max_retries - 1
          /\ Len(c.delays) <= c.tried
          /\ c.tried = max_retries => Len(c.delays) = max_retries - 1
          /\ \A k \in 0..(Len(c.delays) - 1) : c.delays[k + 1] = retry_delay * 2^k

\* C27: a row keeps the payload, event_type, aggregate_id, aggregate_type and
\* created_at it was inserted with (those the handler gave it for its
\* request): no step changes them, and the data of every message published
\* for the row is that payload.
C27_Step ==
    \A i \in OutboxIds :
       /\ outbox[i].exists =>
             /\ outbox'[i].exists
             /\ outbox'[i].payload = outbox[i].payload
             /\ outbox'[i].event_type = outbox[i].event_type
             /\ outbox'[i].aggregate_id = outbox[i].aggregate_id
             /\ outbox'[i].aggregate_type = outbox[i].aggregate_type
             /\ outbox'[i].created_at = outbox[i].created_at
       /\ outbox'[i].exists =>
             \E r \in Requests :
                /\ req'[r].outbox_id = i
                /\ outbox'[i].payload = r
                /\ outbox'[i].aggregate_id = req'[r].event_id
                /\ outbox'[i].event_type = "access_control.event_created"
                /\ outbox'[i].aggregate_type = "Event"
                /\ hist'[i].data \subseteq {r}

C27_RowDataImmutable == [][C27_Step]_vars

C27_Witness ==
    \E i \in OutboxIds :
       /\ outbox[i].processed /\ hist[i].transitions >= 2
       /\ hist[i].fast_ok > 0 /\ hist[i].sweep_ok > 0
       /\ outbox[i].payload # i
       /\ hist[i].data = {outbox[i].payload}

\* C28: a health check answers "down" when the producer is not running and
\* "up" when it is, whether the broker is reachable or not, and leaves the
\* producer's state and counters as they were.
C28_Step ==
    (svc'.health # svc.health \/ svc'.health_broker # svc.health_broker) =>
       /\ svc'.health = IF svc.is_running THEN "up" ELSE "down"
       /\ svc'.health_broker = brokerUp
       /\ [svc' EXCEPT !.health = svc.health, !.health_broker = svc.health_broker] = svc
       /\ brokerUp' = brokerUp

C28_HealthProbeLocal == [][C28_Step]_vars

C28_Witness ==
    /\ svc.health = "up" /\ ~svc.health_broker /\ ~brokerUp
    /\ svc.is_running /\ svc.messages_failed = 1

\* C29: no caller of get_producer_service is handed the shared producer
\* before its start has completed: with the broker reachable all along (so
\* that the start itself succeeds), the producer every caller got was running
\* when it got it, and no dispatch's send raises for a producer not started.
C29_NoStartupRace ==
    (brokerUp /\ env.flips = 0) =>
       \A c \in CallIds :
          /\ svc.callers[c].pc = "returned" => svc.callers[c].got_running
          /\ svc.calls[c].pc # "raised"

\* The row is in the batch of the sweep cycle in progress.
InSweepBatch(i) ==
    wk.task = "sweep" /\ \E k \in 1..Len(wk.batch) : wk.batch[k] = i

\* The synchronous sweep gets its Kafka service (simple_tasks.py:125): the
\* service exists already or the broker is there to construct it.
SweepHasService ==
    deploy = "sync" => get_kafka_service(kafka_service, brokerUp) # "raise"

\* No other row has the created_at of row i: its place in ORDER BY created_at
\* is determined.
OwnCreatedAt(i) ==
    \A j \in OutboxIds \ {i} :
       outbox[j].exists => outbox[j].created_at # outbox[i].created_at

\* C31: every row that stays unprocessed is eventually fetched into a sweep
\* batch (the sweep having its Kafka service from then on), also when as many
\* older rows as the batch holds fail on every cycle.
C31_EveryRowFetched ==
    \A i \in OutboxIds :
       []((outbox[i].exists /\ ~outbox[i].processed /\ OwnCreatedAt(i)
              /\ []SweepHasService)
             => <>(outbox[i].processed \/ InSweepBatch(i)))

\* C35: the attempts field of the result of a send equals the number of
\* transport attempts the call made, for a successful and for a failed send,
\* one that stopped early on an error that is not retried included.
C35_AttemptsAreCounted ==
    (svc.sends > 0 /\ ~svc.last.raised) => svc.last.attempts = svc.last.tried

\* The rows the sweep of the deployment may fetch.
eligible == IF deploy = "sync" THEN eligible_sync ELSE eligible_async

\* A batch of at most limit eligible rows in ascending created_at order that
\* leaves out no eligible row older than one of its rows.
OldestFirst(batch, limit) ==
    /\ Len(batch) <= limit
    /\ \A a \in 1..Len(batch) : batch[a] \in eligible
    /\ \A a, b \in 1..Len(batch) :
          a < b => outbox[batch[a]].created_at <= outbox[batch[b]].created_at
    /\ \A j \in eligible \ {batch[a] : a \in 1..Len(batch)} :
          \A a \in 1..Len(batch) :
             ~(outbox[j].created_at < outbox[batch[a]].created_at)

C34_Step ==
    /\ \A n \in {SmallBatch, BatchSize} :
          ((process_outbox_batch(n) \/ process_failed_outbox_fetch(n))
              /\ wk'.task = "sweep")
             => OldestFirst(wk'.batch, n)
    /\ (process_loop /\ processor'.pc = "row")
          => OldestFirst(processor'.batch, BatchSize)

\* C34: a sweep batch holds at most batchSize rows in ascending created_at
\* order, and no row eligible at fetch time that is older than a fetched row is
\* left out of it.
C34_BatchIsOldestFirst == [][C34_Step]_vars

\* A cycle that has fetched a full batch of two rows, the older one first.
C34_Witness ==
    /\ wk.task = "sweep" /\ wk.idx = 1 /\ Len(wk.batch) = 2
    /\ outbox[wk.batch[1]].created_at < outbox[wk.batch[2]].created_at
    /\ ~outbox[wk.batch[1]].processed /\ ~outbox[wk.batch[2]].processed

\* The send counters of row i.
Sends(h, i) == h[i].fast_ok + h[i].sweep_ok

\* Row i is the row a dispatch that has read it is about to send.
ReadForSend(i) ==
    \/ fp[i].pc = "found"
    \/ wk.task = "sweep" /\ wk.idx \in 1..Len(wk.batch) /\ wk.batch[wk.idx] = i
    \/ /\ processor.pc = "row" /\ processor.idx \in 1..Len(processor.batch)
       /\ processor.batch[processor.idx] = i

C32_Step ==
    \A i \in OutboxIds :
       outbox[i].processed =>
          /\ (fp[i].pc = "scheduled") => (fp'[i].pc # "found")
          /\ (celery[i].state = "queued") =>
                /\ celery'[i].state # "running"
                /\ celery'[i].send_failed = celery[i].send_failed
          /\ (wk.task = "idle" /\ wk'.task = "sweep") =>
                \A k \in 1..Len(wk'.batch) : wk'.batch[k] # i
          /\ (processor.pc = "loop" /\ processor'.pc = "row") =>
                \A k \in 1..Len(processor'.batch) : processor'.batch[k] # i
          /\ (Sends(hist', i) > Sends(hist, i)) => ReadForSend(i)

\* C32: a fast-path dispatch or a sweep cycle that reads the store after the
\* processed=true of a row has been committed does not send that row; a row
\* that is sent while processed was read by its dispatch before the commit.
C32_NoSendAfterCommit == [][C32_Step]_vars

\* The fast path of a row looked it up after a sweep cycle had sent it and
\* committed its mark, and returned without a send.
C32_Witness ==
    \E i \in OutboxIds :
       /\ outbox[i].processed /\ hist[i].sweep_ok = 1 /\ hist[i].fast_ok = 0
       /\ fp[i].pc = "returned" /\ celery[i].state = "none"

\* A sweep cycle sent row i and its mark was lost: the row is unprocessed and
\* no open transaction of the worker holds an UPDATE of it.
MarkLost(i) ==
    /\ outbox[i].exists /\ ~outbox[i].processed
    /\ hist[i].sweep_ok > 0
    /\ i \notin LockedByWorker

C33_Step ==
    (wk.task = "sweep" /\ wk' # wk) =>
       /\ \/ outbox' = outbox
          \/ wk.idx > Len(wk.batch) /\ outbox' = commit_marks(wk.marks)
       /\ (wk'.task = "idle" /\ env'.faults > env.faults) => outbox' = outbox

RowsOf(e) == {i \in OutboxIds : outbox[i].exists /\ outbox[i].aggregate_id = e.id}

\* The handler has answered the request that saved the domain event.
Answered(e) == \E r \in Requests : req[r].event_id = e.id /\ req[r].pc = "done"

\* C37: outbox rows, fast-path dispatches and publishes exist for ATTENDANCE
\* events only (a heartbeat and an INFORMATION event leave none), and every
\* committed ATTENDANCE event whose request has been answered has exactly one
\* outbox row, with a fast-path dispatch started for it.
C37_OutboxForAttendanceOnly ==
    /\ \A i \in OutboxIds :
          outbox[i].exists =>
             \E e \in events : e.id = outbox[i].aggregate_id /\ e.purpose = "ATTENDANCE"
    /\ \A i \in OutboxIds :
          (fp[i].pc # "none" \/ Sends(hist, i) > 0) => outbox[i].exists
    /\ \A e \in events :
          (e.purpose = "ATTENDANCE" /\ Answered(e)) =>
             /\ Cardinality(RowsOf(e)) = 1
             /\ \A i \in RowsOf(e) : fp[i].pc # "none"

\* C36: every message published from the outbox carries the event_type of the
\* row, its payload as data and the row id as correlation id; the fast path
\* sends it with priority high, the sweep with priority normal.
C36_MessageCarriesRow ==
    \A i \in OutboxIds : \A m \in hist[i].msgs :
       /\ m.message.event_type = outbox[i].event_type
       /\ m.message.data = outbox[i].payload
       /\ m.message.correlation_id = str(i)
       /\ m.message.priority = IF m.path = "fast" THEN "high" ELSE "normal"

\* C38: publish_event of KafkaService never raises; it returns True only when
\* the broker has acknowledged the message, and False on a timeout, on a Kafka
\* error, on any other error and without a producer.
C38_PublishEventNeverRaises ==
    ksvc.publishes > 0 =>
       /\ ~ksvc.last.raised
       /\ ksvc.last.value =>
             (ksvc.last.had_producer /\ ksvc.last.out = "ack" /\ ksvc.last.up)
       /\ (~ksvc.last.had_producer \/ ksvc.last.out # "ack") => ~ksvc.last.value

\* A call on an initialised producer that ended in an error which is not a
\* Kafka error, and returned False.
C38_Witness ==
    /\ ksvc.publishes > 0 /\ ksvc.last.had_producer
    /\ ksvc.last.out = "serialization"
    /\ ~ksvc.last.raised /\ ~ksvc.last.value

====
